---- MODULE Spec2Model ----
(***************************************************************************)
(* TuneTrainer (tunetrainer_app.py): pitch detection and note mapping.     *)
(*                                                                         *)
(* Numbers.  A frequency is a real number; the model keeps the ones of the *)
(* form  sgn * 440 * 2^(k/1200)  as records [nan, sgn, k]: sgn is the sign *)
(* (-1, 0, 1) and k the distance from A4 = 440 Hz in cents.  On these      *)
(* 12*log2(f/440) and 440*2^(x/12) are exact, so a frequency exactly       *)
(* halfway between two notes (k = 50 mod 100) is a value of the model.     *)
(* A fractional MIDI number is kept in cents (midi 69.5 is 6950).          *)
(* An optional value (a float or None) is a sequence of length <= 1:       *)
(* None is <<>> and the value v is <<v>>.                                  *)
(***************************************************************************)
EXTENDS Integers, Sequences, FiniteSets, TLC

VARIABLES
    pc,            \* position of the running script / call
    duration,      \* sidebar slider, in half seconds (2.0 s is 4)
    sr,            \* sidebar selectbox
    audio,         \* the recorded buffer, by its number of samples
    sr_actual,     \* the sample rate handed to detect_pitch
    f0_series,     \* what librosa.yin returned (frame estimates), <<>> before
    freq,          \* optional frequency: detect_pitch's result, hz_to_note's argument
    note_name,     \* optional string
    cents_off,     \* optional integer (cents)
    target_freq,   \* optional frequency
    nearest_midi,  \* optional integer: hz_to_note's local nearest_midi
    logged,        \* whether the last hz_to_note evaluated math.log2
    outcome,       \* how the last call ended: "none", "returned", "raised"
    calls,         \* the functions of the app invoked in this script run, in order
    ui             \* the Streamlit elements rendered in this script run, in order

vars == <<pc, duration, sr, audio, sr_actual, f0_series, freq, note_name,
          cents_off, target_freq, nearest_midi, logged, outcome, calls, ui>>

------------------------------------------------------------------------------
(* Bounds of the model *)

\* notes below MIDI 0 that the inputs of hz_to_note reach
LowNotes == 14
\* highest MIDI note the inputs of hz_to_note reach
MaxMidi == 72
\* longest frame series librosa.yin returns in the model
MaxFrames == 3
\* longest buffer handed to detect_pitch called on its own
MaxLen == 2

------------------------------------------------------------------------------
(* Program constants *)

\* cents_off = (midi_num - nearest_midi) * 100
CentsPerSemitone == 100
\* 69 + 12 * log2(...)
SemitonesPerOctave == 12
A4Midi == 69
\* show_feedback: cents_abs < 5
InTuneCents == 5
\* show_feedback: np.clip(cents_off + 50, 0, 100)
ProgressOffset == 50
ProgressMax == 100
\* librosa.note_to_hz("C2"), librosa.note_to_hz("C7") as MIDI numbers
C2Midi == 36
C7Midi == 96

OctaveCents == SemitonesPerOctave * CentsPerSemitone

None == <<>>
Some(v) == <<v>>

Num(s, k) == [nan |-> FALSE, sgn |-> s, k |-> k]
Zero == Num(0, 0)
NaN == [nan |-> TRUE, sgn |-> 0, k |-> 0]

\* a <= b on numbers
Leq(a, b) ==
    IF a.sgn # b.sgn THEN a.sgn < b.sgn
    ELSE IF a.sgn = 1 THEN a.k <= b.k
    ELSE IF a.sgn = -1 THEN a.k >= b.k
    ELSE TRUE

------------------------------------------------------------------------------
(* hz_to_note *)

note_names == <<"C", "C#", "D", "D#", "E", "F", "F#", "G", "G#", "A", "A#", "B">>

\* the guard `freq <= 0` with < in place of <=
freq_lt_zero(f) == f.sgn < 0

\* `if freq <= 0`
freq_le_zero(f) == f.sgn <= 0

\* math.log2 raises ValueError outside its domain
log2_defined(x) == x.sgn > 0

\* 69 + 12 * math.log2(freq / 440.0), in cents
midi_num_of(f) == A4Midi * CentsPerSemitone + f.k

\* round half up: floor(x + 0.5)
round_half_up(m) == (m + (CentsPerSemitone \div 2)) \div CentsPerSemitone

\* int(): truncation of the fractional part, no rounding
round_floor(m) == m \div CentsPerSemitone

\* round(): Python 3 rounds to the nearest integer, a tie to the even one
round(m) ==
    LET q == m \div CentsPerSemitone
        r == m % CentsPerSemitone
    IN  IF 2 * r < CentsPerSemitone THEN q
        ELSE IF 2 * r > CentsPerSemitone THEN q + 1
        ELSE IF q % 2 = 0 THEN q ELSE q + 1

\* octave with the -1 left out
octave_no_offset(n) == n \div SemitonesPerOctave

\* (nearest_midi // 12) - 1
octave_of(n) == (n \div SemitonesPerOctave) - 1

\* note_names[nearest_midi % 12] + str((nearest_midi // 12) - 1)
note_name_of(n) == note_names[(n % SemitonesPerOctave) + 1] \o ToString(octave_of(n))

\* target frequency of the note above
target_freq_sharp(n) == Num(1, (n + 1 - A4Midi) * CentsPerSemitone)

\* 440.0 * (2 ** ((nearest_midi - 69) / 12))
target_freq_of(n) == Num(1, (n - A4Midi) * CentsPerSemitone)

\* the result of hz_to_note(f): raised tells a ValueError from math.log2,
\* logged that math.log2 was evaluated
hz_to_note(f) ==
    IF freq_le_zero(f)
    THEN [raised |-> FALSE, logged |-> FALSE, nearest_midi |-> None,
          note_name |-> None, cents_off |-> None, target_freq |-> None]
    ELSE IF ~log2_defined(f)
    THEN [raised |-> TRUE, logged |-> TRUE, nearest_midi |-> None,
          note_name |-> None, cents_off |-> None, target_freq |-> None]
    ELSE LET midi_num == midi_num_of(f)
             nearest == round(midi_num)
         IN  [raised |-> FALSE, logged |-> TRUE,
              nearest_midi |-> Some(nearest),
              note_name |-> Some(note_name_of(nearest)),
              cents_off |-> Some(midi_num - nearest * CentsPerSemitone),
              target_freq |-> Some(target_freq_of(nearest))]

------------------------------------------------------------------------------
(* detect_pitch *)

\* librosa.note_to_hz("C2"), librosa.note_to_hz("C7")
fmin == Num(1, (C2Midi - A4Midi) * CentsPerSemitone)
fmax == Num(1, (C7Midi - A4Midi) * CentsPerSemitone)

\* the frequencies a frame estimate takes in the model, as cents from A4
FrameCents ==
    {(n - A4Midi) * CentsPerSemitone + c : n \in {C2Midi, 60, A4Midi, 70, C7Midi},
                                          c \in {-50, -3, 0, 20, 50}}

\* one frame's estimate around the frequency F: undefined, zero, -F or F
FrameValues(F) == {NaN, Zero, Num(-1, F), Num(1, F)}

SeriesOver(S, lo, hi) == UNION {[1..n -> S] : n \in lo..hi}

\* the call librosa.yin(y, fmin=..., fmax=..., sr=sr): the library is not part of
\* the program, so its result is any array of floats; on input outside its
\* contract (empty y, sr <= 0, fmin >= fmax) it raises or returns some array
well_formed(n_samples, rate) ==
    n_samples > 0 /\ rate > 0 /\ Leq(fmin, fmax) /\ fmin # fmax

yin(n_samples, rate) ==
    LET series(lo) == UNION {SeriesOver(FrameValues(F), lo, MaxFrames) : F \in FrameCents}
    IN  IF well_formed(n_samples, rate)
        THEN {[raised |-> FALSE, f0 |-> s] : s \in series(1)}
        ELSE {[raised |-> TRUE, f0 |-> <<>>]}
             \union {[raised |-> FALSE, f0 |-> s] : s \in series(0)}

\* f0_series[~np.isnan(f0_series)]
drop_nan(s) == SelectSeq(s, LAMBDA e : ~e.nan)

RECURSIVE insert(_, _)
insert(s, e) ==
    IF s = <<>> THEN <<e>>
    ELSE IF Leq(e, Head(s)) THEN <<e>> \o s
    ELSE <<Head(s)>> \o insert(Tail(s), e)

RECURSIVE sort(_)
sort(s) == IF s = <<>> THEN <<>> ELSE insert(sort(Tail(s)), Head(s))

\* half of a number: one octave down
half(a) == IF a.sgn = 0 THEN Zero ELSE Num(a.sgn, a.k - OctaveCents)

\* (a + b) / 2 for a <= b, on the pairs the frame values give
mean(a, b) ==
    CASE a = b -> a
      [] a # b /\ a.sgn = -b.sgn /\ a.k = b.k -> Zero
      [] a # b /\ a.sgn = 0 -> half(b)
      [] a # b /\ b.sgn = 0 -> half(a)

\* the upper middle element alone, for every length
median_upper(s) == sort(s)[(Len(s) \div 2) + 1]

\* np.median of a non-empty array without NaN
median(s) ==
    LET t == sort(s)
        n == Len(t)
    IN  IF n % 2 = 1 THEN t[(n + 1) \div 2]
        ELSE mean(t[n \div 2], t[(n \div 2) + 1])

\* detect_pitch's code after the call of librosa.yin, on the array it returned
reduce(f0) ==
    LET f0_kept == drop_nan(f0)
    IN  IF Len(f0_kept) = 0 THEN None ELSE Some(median(f0_kept))

------------------------------------------------------------------------------
(* show_feedback *)

abs(x) == IF x < 0 THEN -x ELSE x

\* int(np.clip(cents_off + 50, 0, 100))
progress_val_of(c) ==
    LET v == c + ProgressOffset
    IN  IF v < 0 THEN 0 ELSE IF v > ProgressMax THEN ProgressMax ELSE v

\* what show_feedback(name, cents) renders, and whether it raises: the subheader
\* is written first (an f-string renders None as "None"), then abs(None) is a
\* TypeError
show_feedback(name, cents) ==
    LET subheader == "Detected Note: " \o (IF name = None THEN "None" ELSE name[1])
    IN  IF cents = None
        THEN [raised |-> TRUE, ui |-> <<subheader>>]
        ELSE LET c == cents[1]
                 verdict == IF abs(c) < InTuneCents THEN "success: In tune"
                            ELSE IF c > 0 THEN "warning: sharp"
                            ELSE "warning: flat"
             IN  [raised |-> FALSE,
                  ui |-> <<subheader, verdict,
                           "progress: " \o ToString(progress_val_of(c))>>]

------------------------------------------------------------------------------
(* The functions called on their own *)

\* the frequencies handed to hz_to_note: every cent from MIDI note -LowNotes to
\* MaxMidi, zero, and the negatives of the note frequencies
NoteInputs ==
    {Num(1, k) : k \in ((-LowNotes - A4Midi) * CentsPerSemitone - (CentsPerSemitone \div 2))
                       .. ((MaxMidi - A4Midi) * CentsPerSemitone + (CentsPerSemitone \div 2))}
    \union {Zero}
    \union {Num(-1, (n - A4Midi) * CentsPerSemitone) : n \in -LowNotes..MaxMidi}

\* the state before anything ran: the sidebar's defaults, nothing computed
Fresh ==
    /\ duration = 4
    /\ sr = 44100
    /\ f0_series = <<>>
    /\ note_name = None
    /\ cents_off = None
    /\ target_freq = None
    /\ nearest_midi = None
    /\ logged = FALSE
    /\ outcome = "none"
    /\ calls = <<>>
    /\ ui = <<>>

InitNote ==
    /\ Fresh
    /\ audio = 0
    /\ sr_actual = 0
    /\ freq \in {Some(f) : f \in NoteInputs}
    /\ pc = "call"

\* one call hz_to_note(freq)
CallHzToNote ==
    /\ pc = "call"
    /\ LET r == hz_to_note(freq[1])
       IN  /\ note_name' = r.note_name
           /\ cents_off' = r.cents_off
           /\ target_freq' = r.target_freq
           /\ nearest_midi' = r.nearest_midi
           /\ logged' = r.logged
           /\ outcome' = IF r.raised THEN "raised" ELSE "returned"
    /\ pc' = "done"
    /\ calls' = Append(calls, "hz_to_note")
    /\ UNCHANGED <<duration, sr, audio, sr_actual, f0_series, freq, ui>>

NextNote == CallHzToNote

SpecNote == InitNote /\ [][NextNote]_vars

\* the arguments handed to detect_pitch: buffers of 0..MaxLen samples, and
\* sample rates that are the program's two or not positive
InitPitch ==
    /\ Fresh
    /\ audio \in 0..MaxLen
    /\ sr_actual \in {-1, 0, 44100, 48000}
    /\ freq = None
    /\ pc = "call"

\* one call detect_pitch(audio, sr_actual): an exception of librosa.yin is not
\* caught and leaves detect_pitch
CallDetectPitch ==
    /\ pc = "call"
    /\ \E r \in yin(audio, sr_actual) :
         /\ f0_series' = r.f0
         /\ freq' = IF r.raised THEN None ELSE reduce(r.f0)
         /\ outcome' = IF r.raised THEN "raised" ELSE "returned"
    /\ pc' = "done"
    /\ calls' = Append(calls, "detect_pitch")
    /\ UNCHANGED <<duration, sr, audio, sr_actual, note_name, cents_off,
                   target_freq, nearest_midi, logged, ui>>

NextPitch == CallDetectPitch

SpecPitch == InitPitch /\ [][NextPitch]_vars

------------------------------------------------------------------------------
(* The Streamlit script: every interaction runs it again from the top, and what
   the run before rendered and computed is gone *)

\* st.slider("Recording Duration (seconds)", 1.0, 5.0, 2.0, 0.5), in half seconds
Durations == 2..10
\* st.selectbox("Sample Rate", [44100, 48000])
SampleRates == {44100, 48000}

Init ==
    /\ Fresh
    /\ audio = 0
    /\ sr_actual = 0
    /\ freq = None
    /\ pc = "idle"

\* the script is at rest: it ran to its end or stopped on an exception
AtRest == pc \in {"idle", "done", "crashed"}

\* a rerun's fresh start: nothing of the run before is left
Rerun(p) ==
    /\ pc' = p
    /\ audio' = 0
    /\ sr_actual' = 0
    /\ f0_series' = <<>>
    /\ freq' = None
    /\ note_name' = None
    /\ cents_off' = None
    /\ target_freq' = None
    /\ nearest_midi' = None
    /\ logged' = FALSE
    /\ outcome' = "none"
    /\ calls' = <<>>
    /\ ui' = <<>>

\* the user moves the slider: the script reruns with st.button(...) False
SetDuration ==
    /\ AtRest
    /\ \E d \in Durations \ {duration} : duration' = d
    /\ Rerun("idle")
    /\ UNCHANGED sr

\* the user picks a sample rate: the script reruns with st.button(...) False
SetSampleRate ==
    /\ AtRest
    /\ \E r \in SampleRates \ {sr} : sr' = r
    /\ Rerun("idle")
    /\ UNCHANGED duration

\* the user presses Record: the script reruns with st.button(...) True
PressRecord ==
    /\ AtRest
    /\ Rerun("record")
    /\ UNCHANGED <<duration, sr>>

\* audio, sr_actual = record_audio(duration, sr): int(duration * samplerate)
\* samples, whatever the microphone heard
RecordAudio ==
    /\ pc = "record"
    /\ audio' = (duration * sr) \div 2
    /\ sr_actual' = sr
    /\ ui' = ui \o <<"info: Recording", "success: Recording complete!">>
    /\ calls' = Append(calls, "record_audio")
    /\ pc' = "analyze"
    /\ UNCHANGED <<duration, sr, f0_series, freq, note_name, cents_off,
                   target_freq, nearest_midi, logged, outcome>>

\* freq = detect_pitch(audio, sr_actual); f0_series is detect_pitch's local
\* and is gone when it returns
DetectPitch ==
    /\ pc = "analyze"
    /\ \E r \in yin(audio, sr_actual) :
         /\ freq' = IF r.raised THEN None ELSE reduce(r.f0)
         /\ outcome' = IF r.raised THEN "raised" ELSE "returned"
         /\ pc' = IF r.raised THEN "crashed" ELSE "branch"
    /\ calls' = Append(calls, "detect_pitch")
    /\ UNCHANGED <<duration, sr, audio, sr_actual, f0_series, note_name,
                   cents_off, target_freq, nearest_midi, logged, ui>>

\* the branch that hands on to show_feedback although no pitch was found
NoPitchFallsThrough ==
    /\ pc = "branch"
    /\ freq = None
    /\ ui' = Append(ui, "error: No pitch detected")
    /\ pc' = "feedback"
    /\ UNCHANGED <<duration, sr, audio, sr_actual, f0_series, freq, note_name,
                   cents_off, target_freq, nearest_midi, logged, outcome, calls>>

\* if freq is None: st.error("No pitch detected. ...")
NoPitch ==
    /\ pc = "branch"
    /\ freq = None
    /\ ui' = Append(ui, "error: No pitch detected")
    /\ pc' = "done"
    /\ UNCHANGED <<duration, sr, audio, sr_actual, f0_series, freq, note_name,
                   cents_off, target_freq, nearest_midi, logged, outcome, calls>>

\* else: note_name, cents_off, target_freq = hz_to_note(freq)
MapNote ==
    /\ pc = "branch"
    /\ freq # None
    /\ LET r == hz_to_note(freq[1])
       IN  /\ note_name' = r.note_name
           /\ cents_off' = r.cents_off
           /\ target_freq' = r.target_freq
           /\ nearest_midi' = r.nearest_midi
           /\ logged' = r.logged
           /\ outcome' = IF r.raised THEN "raised" ELSE "returned"
           /\ pc' = IF r.raised THEN "crashed" ELSE "feedback"
    /\ calls' = Append(calls, "hz_to_note")
    /\ UNCHANGED <<duration, sr, audio, sr_actual, f0_series, freq, ui>>

\* show_feedback(note_name, cents_off): a TypeError in it ends the script run
ShowFeedback ==
    /\ pc = "feedback"
    /\ LET r == show_feedback(note_name, cents_off)
       IN  /\ ui' = ui \o r.ui
           /\ outcome' = IF r.raised THEN "raised" ELSE "returned"
           /\ pc' = IF r.raised THEN "crashed" ELSE "details"
    /\ calls' = Append(calls, "show_feedback")
    /\ UNCHANGED <<duration, sr, audio, sr_actual, f0_series, freq, note_name,
                   cents_off, target_freq, nearest_midi, logged>>

\* with st.expander("Details"): the three f-strings (a format spec on None is a
\* TypeError) and the waveform plot
Details ==
    /\ pc = "details"
    /\ IF freq = None \/ target_freq = None \/ cents_off = None
       THEN /\ outcome' = "raised"
            /\ pc' = "crashed"
            /\ ui' = ui
       ELSE /\ outcome' = "returned"
            /\ pc' = "done"
            /\ ui' = ui \o <<"details: Fundamental frequency", "details: Nearest note frequency",
                             "details: Cent deviation", "details: Waveform">>
    /\ UNCHANGED <<duration, sr, audio, sr_actual, f0_series, freq, note_name,
                   cents_off, target_freq, nearest_midi, logged, calls>>

Next ==
    \/ SetDuration
    \/ SetSampleRate
    \/ PressRecord
    \/ RecordAudio
    \/ DetectPitch
    \/ NoPitch
    \/ MapNote
    \/ ShowFeedback
    \/ Details

Spec == Init /\ [][Next]_vars

------------------------------------------------------------------------------
(* Properties of hz_to_note, under SpecNote *)

\* hz_to_note was called on a positive frequency and returned
Mapped == pc = "done" /\ freq[1].sgn > 0 /\ outcome = "returned"

\* the fractional MIDI number of the argument, in cents
ArgMidi == A4Midi * CentsPerSemitone + freq[1].k

\* the argument lies exactly halfway between the notes N and N + 1
Tie == ArgMidi % CentsPerSemitone = CentsPerSemitone \div 2

\* the note N below the argument
NoteBelow == ArgMidi \div CentsPerSemitone

\* C1 as stated: at every frequency exactly halfway between the notes N and N+1
\* the nearest note is the higher one, N+1, for even and odd N alike.
C1_TieGoesUp == (Mapped /\ Tie) => nearest_midi = Some(NoteBelow + 1)

\* C1 amended: the nearest note is never more than half a semitone from the
\* argument, and halfway between N and N+1 it is the even one of the two: N+1 for
\* odd N, N for even N.
C1_TieGoesToEven ==
    Mapped =>
        /\ nearest_midi # None
        /\ 2 * abs(ArgMidi - nearest_midi[1] * CentsPerSemitone) <= CentsPerSemitone
        /\ Tie => nearest_midi[1] = IF NoteBelow % 2 = 0 THEN NoteBelow ELSE NoteBelow + 1

\* a tie above an even note was mapped to that lower note
C1_Witness == Mapped /\ Tie /\ NoteBelow % 2 = 0 /\ nearest_midi = Some(NoteBelow)

\* C2 as stated: cents_off is (midi - nearest_midi) * 100 and lies in (-50, +50],
\* never at -50.
C2_HalfOpenRange ==
    Mapped =>
        /\ cents_off = Some(ArgMidi - nearest_midi[1] * CentsPerSemitone)
        /\ -50 < cents_off[1] /\ cents_off[1] <= 50

\* C2 amended: cents_off is (midi - nearest_midi) * 100, unclamped, and lies in
\* the closed range [-50, +50]; it is -50 halfway above an odd note and +50
\* halfway above an even one.
C2_ClosedRange ==
    Mapped =>
        /\ cents_off = Some(ArgMidi - nearest_midi[1] * CentsPerSemitone)
        /\ -50 <= cents_off[1] /\ cents_off[1] <= 50
        /\ Tie => cents_off[1] = IF NoteBelow % 2 = 0 THEN 50 ELSE -50

\* a tie above an odd note gave exactly -50 cents
C2_Witness == Mapped /\ Tie /\ NoteBelow % 2 = 1 /\ cents_off = Some(-50)

\* C3: for freq <= 0 hz_to_note returns (None, None, None), raises nothing and
\* evaluates no logarithm; for freq > 0 it returns a note name, a cents value and
\* a target frequency.
C3_NonPositiveIsNoNote ==
    pc = "done" =>
        /\ outcome = "returned"
        /\ freq[1].sgn <= 0 =>
             note_name = None /\ cents_off = None /\ target_freq = None /\ ~logged
        /\ freq[1].sgn > 0 =>
             note_name # None /\ cents_off # None /\ target_freq # None

\* hz_to_note returned "no note" for the frequency zero
C3_Witness ==
    pc = "done" /\ freq = Some(Zero) /\ outcome = "returned" /\ note_name = None /\ ~logged

\* the pitch classes, in the order of the octave
PitchClasses == <<"C", "C#", "D", "D#", "E", "F", "F#", "G", "G#", "A", "A#", "B">>

\* C4: the note name is the pitch class at index n mod 12 followed by the octave
\* (n div 12) - 1, floor division, for every nearest note n, also below 12 and
\* below 0; 69 is "A4", 60 is "C4", 70 is "A#4".
C4_NoteName ==
    (Mapped /\ nearest_midi # None) =>
        LET n == nearest_midi[1]
        IN  /\ note_name = Some(PitchClasses[(n % 12) + 1] \o ToString((n \div 12) - 1))
            /\ n = 69 => note_name = Some("A4")
            /\ n = 60 => note_name = Some("C4")
            /\ n = 70 => note_name = Some("A#4")
            /\ n = 11 => note_name = Some("B-1")
            /\ n = -1 => note_name = Some("B-2")

\* a negative nearest note got its name
C4_Witness == Mapped /\ nearest_midi = Some(-1) /\ note_name = Some("B-2")

------------------------------------------------------------------------------
(* Properties of detect_pitch, under SpecPitch *)

\* detect_pitch returned (librosa.yin did not raise)
Reduced == pc = "done" /\ outcome = "returned"

\* the defined frame estimates, in the order of the frames
Defined == SelectSeq(f0_series, LAMBDA e : ~e.nan)

\* the k-th smallest element of the non-empty sequence s
Kth(s, k) ==
    CHOOSE x \in {s[i] : i \in 1..Len(s)} :
        /\ Cardinality({i \in 1..Len(s) : Leq(s[i], x) /\ s[i] # x}) < k
        /\ k <= Cardinality({i \in 1..Len(s) : Leq(s[i], x)})

\* C6: NaN estimates are discarded; with none left the result is None; otherwise
\* it is the median of the defined estimates (the mean of the two middle ones
\* for an even count), which lies between the smallest and the largest of them.
C6_MedianOfDefined ==
    Reduced =>
        LET n == Len(Defined)
        IN  /\ n = 0 => freq = None
            /\ n > 0 =>
                 /\ freq # None
                 /\ freq[1] = IF n % 2 = 1 THEN Kth(Defined, (n + 1) \div 2)
                              ELSE mean(Kth(Defined, n \div 2), Kth(Defined, (n \div 2) + 1))
                 /\ Leq(Kth(Defined, 1), freq[1])
                 /\ Leq(freq[1], Kth(Defined, n))

\* an undefined estimate was discarded and two different middle estimates averaged
C6_Witness ==
    /\ Reduced
    /\ Len(f0_series) = 3
    /\ Len(Defined) = 2
    /\ Defined[1] # Defined[2]
    /\ freq # None
    /\ freq[1] # Defined[1] /\ freq[1] # Defined[2]

\* C8 as stated: input outside the contract (empty buffer, sample rate <= 0,
\* fmin >= fmax) ends in an error result, which is neither a frequency nor None
\* nor an exception; well-formed input never raises.
C8_ErrorResult ==
    pc = "done" =>
        IF well_formed(audio, sr_actual) THEN outcome = "returned"
        ELSE outcome = "error"

------------------------------------------------------------------------------
(* Properties of the script, under Spec *)

RecordOrder == <<"record_audio", "detect_pitch", "hz_to_note", "show_feedback">>

\* C10: the steps of a Record press run in the order record_audio, detect_pitch,
\* hz_to_note, show_feedback; the run ends, with no pitch, after detect_pitch with
\* the "No pitch detected" message and without hz_to_note and show_feedback, and,
\* with a frequency, after one hz_to_note on it and show_feedback, without the
\* message; without a press none of the steps runs.
C10_RecordOrder ==
    /\ calls = SubSeq(RecordOrder, 1, Len(calls))
    /\ pc = "idle" => calls = <<>> /\ ui = <<>>
    /\ pc \in {"record", "analyze"} => Len(calls) < 2
    /\ pc \in {"done", "crashed"} =>
          IF freq = None
          THEN /\ calls = SubSeq(RecordOrder, 1, 2)
               /\ \E i \in 1..Len(ui) : ui[i] = "error: No pitch detected"
          ELSE /\ calls = RecordOrder
               /\ \A i \in 1..Len(ui) : ui[i] # "error: No pitch detected"
               /\ note_name = hz_to_note(freq[1]).note_name
               /\ cents_off = hz_to_note(freq[1]).cents_off

\* a press ended with a note shown
C10_Witness ==
    pc = "done" /\ freq # None /\ calls = RecordOrder /\ note_name # None

====
